---- MODULE Spec2Model ----
(***************************************************************************)
(* A model of resize-image (src/index.js): the option normaliser           *)
(* (validateOptions), the fit geometry resolver (validateImageFit), and    *)
(* the render pipeline of resizeImageToBlob with its background worker     *)
(* (loadWebWorker, renderToBlobWithOffscreenCanvas) and its main-thread    *)
(* fallback (renderToCanvas, getBlobFromCanvas).                           *)
(*                                                                         *)
(* Numbers of the geometry are exact rationals <<n, d>> (d > 0, reduced);  *)
(* Math.round is floor(x + 1/2).                                           *)
(***************************************************************************)
EXTENDS Integers, Sequences, FiniteSets, TLC

\* ------------------------------------------------------------------ bounds

\* Source widths and heights are 0..MaxSrc (0: a drawable of unknown size).
MaxSrc == 2
\* Small requested widths and heights are 1..MaxTarget.
MaxTarget == 2
\* Requested sizes above the ICO cap are IcoMax+1..IcoMax+MaxOver.
MaxOver == 1
\* The resize calls of one process are 1..NumCalls.
NumCalls == 2

\* The largest ICO canvas side (index.js line 386).
IcoMax == 256

\* ------------------------------------------------------------- rationals

\* The arithmetic is written as functions, whose arguments are values.
Gcd[a \in Nat, b \in Nat] == IF b = 0 THEN a ELSE Gcd[b, a % b]

Abs(x) == IF x < 0 THEN -x ELSE x

\* The rational n/d (d # 0) in lowest terms with a positive denominator.
Rat[n \in Int, d \in Int] ==
  LET s == IF d < 0 THEN -1 ELSE 1
      g == Gcd[Abs(n), Abs(d)]
  IN  <<(s * n) \div g, (s * d) \div g>>

Q == Int \X Int
RInt[k \in Int] == <<k, 1>>
RMul[a \in Q, b \in Q] == Rat[a[1] * b[1], a[2] * b[2]]
RDiv[a \in Q, b \in Q] == Rat[a[1] * b[2], a[2] * b[1]]
RSub[a \in Q, b \in Q] == Rat[a[1] * b[2] - b[1] * a[2], a[2] * b[2]]
RLess[a \in Q, b \in Q] == a[1] * b[2] < b[1] * a[2]
RMin[a \in Q, b \in Q] == IF RLess[b, a] THEN b ELSE a
RMax[a \in Q, b \in Q] == IF RLess[a, b] THEN b ELSE a

\* Math.round: the nearest integer, halves towards +infinity.
MathRound[x \in Q] == (2 * x[1] + x[2]) \div (2 * x[2])

\* ------------------------------------------------------- option normaliser

\* A caller's options object is a record holding only the fields the caller
\* gave; null and undefined options are the empty record ({ ...opts }).
NoOpts == [f \in {} |-> f]
Has(o, f) == f \in DOMAIN o
Undefined == "undefined"

\* String.prototype.toLowerCase on the strings (and gravity words) in use.
ToLowerCase(s) ==
  CASE s = "INSIDE" -> "inside"
    [] s = "Cover" -> "cover"
    [] s = "NORTH" -> "north"
    [] s = "Right" -> "right"
    [] OTHER -> s

\* A gravity string is the sequence of the words it is made of
\* ("northeast" is <<"north", "east">>); includes() searches them.
Includes(g, w) == \E i \in 1..Len(g) : ToLowerCase(g[i]) = w

\* getYGravity(opts.gravity): -1 for north/top, +1 for south/bottom.
getYGravity(o) ==
  IF Has(o, "gravity")
    THEN IF Includes(o.gravity, "north") \/ Includes(o.gravity, "top") THEN -1
         ELSE IF Includes(o.gravity, "south") \/ Includes(o.gravity, "bottom") THEN 1
         ELSE 0
    ELSE 0

\* getXGravity(opts.gravity): -1 for east/left, +1 for west/right.
getXGravity(o) ==
  IF Has(o, "gravity")
    THEN IF Includes(o.gravity, "east") \/ Includes(o.gravity, "left") THEN -1
         ELSE IF Includes(o.gravity, "west") \/ Includes(o.gravity, "right") THEN 1
         ELSE 0
    ELSE 0

\* parseNumberArg(opts[f], def) for a field that is absent or an integer.
parseNumberArg(o, f, def) == IF Has(o, f) THEN o[f] ELSE def

Max2(a, b) == IF a < b THEN b ELSE a
Min2(a, b) == IF b < a THEN b ELSE a

\* typeSupportsAlpha(type): type !== 'image/jpeg'.
typeSupportsAlpha(type) == type # "image/jpeg"

\* validateOptions(opts): the canonical options. Width and height are
\* integers here, so Math.round leaves them; quality is in hundredths.
validateOptions(o) ==
  [ type      |-> IF Has(o, "type") /\ o.type # "" THEN o.type ELSE "image/jpeg",
    alpha     |-> typeSupportsAlpha(IF Has(o, "type") THEN o.type ELSE Undefined),
    width     |-> Max2(parseNumberArg(o, "width", 0), 0),
    height    |-> Max2(parseNumberArg(o, "height", 0), 0),
    quality   |-> Min2(Max2(parseNumberArg(o, "quality", 100), 0), 100),
    xGravity  |-> getYGravity(o),
    yGravity  |-> getXGravity(o),
    fit       |-> IF Has(o, "fit") /\ o.fit # "" THEN ToLowerCase(o.fit) ELSE "stretch",
    noEnlarge |-> Has(o, "noEnlarge") /\ o.noEnlarge = TRUE,
    smoothen  |-> Has(o, "smoothen") /\ o.smoothen = TRUE ]

\* opts.background as the render code reads it off the canonical options:
\* undefined (falsy) when the record has no such field.
OptBackground(opts) == IF Has(opts, "background") THEN opts.background ELSE Undefined
Truthy(v) == v # Undefined /\ v # ""

\* ------------------------------------------------------ geometry resolver

\* Lines 326-336: a missing target dimension forces 'stretch' and is filled
\* in by the source's aspect ratio.
FillDims(opts, width, height) ==
  LET cw == opts.width
      ch == opts.height
  IN  IF cw = 0 \/ ch = 0
        THEN IF cw # 0
               THEN [fit |-> "stretch", cw |-> RInt[cw],
                     ch |-> RMul[RDiv[RInt[cw], RInt[width]], RInt[height]]]
             ELSE IF ch # 0
               THEN [fit |-> "stretch", ch |-> RInt[ch],
                     cw |-> RMul[RDiv[RInt[ch], RInt[height]], RInt[width]]]
             ELSE [fit |-> "stretch", cw |-> RInt[width], ch |-> RInt[height]]
        ELSE [fit |-> opts.fit, cw |-> RInt[cw], ch |-> RInt[ch]]

\* Lines 340-351: the placed image size for the fit mode.
PlaceImageWidthOnly(d, width, height) ==
  IF d.fit = "outside" \/ d.fit = "cover"
    THEN LET scale == RMax[RDiv[d.cw, RInt[width]], RDiv[d.ch, RInt[height]]]
         IN  [iw |-> RMul[RInt[width], scale], ih |-> RInt[height]]
  ELSE IF d.fit = "inside" \/ d.fit = "contain"
    THEN LET scale == RMin[RDiv[d.cw, RInt[width]], RDiv[d.ch, RInt[height]]]
         IN  [iw |-> RMul[RInt[width], scale], ih |-> RInt[height]]
  ELSE [iw |-> d.cw, ih |-> RInt[height]]
PlaceImage(d, width, height) ==
  IF d.fit = "outside" \/ d.fit = "cover"
    THEN LET scale == RMax[RDiv[d.cw, RInt[width]], RDiv[d.ch, RInt[height]]]
         IN  [iw |-> RMul[RInt[width], scale], ih |-> RMul[RInt[height], scale]]
  ELSE IF d.fit = "inside" \/ d.fit = "contain"
    THEN LET scale == RMin[RDiv[d.cw, RInt[width]], RDiv[d.ch, RInt[height]]]
         IN  [iw |-> RMul[RInt[width], scale], ih |-> RMul[RInt[height], scale]]
  ELSE [iw |-> d.cw, ih |-> d.ch]

\* Lines 352-355: 'outside' and 'inside' snap the canvas to the image.
SnapCanvasNever(d, i) == [cw |-> d.cw, ch |-> d.ch, iw |-> i.iw, ih |-> i.ih]
SnapCanvas(d, i) ==
  IF d.fit = "outside" \/ d.fit = "inside"
    THEN [cw |-> i.iw, ch |-> i.ih, iw |-> i.iw, ih |-> i.ih]
    ELSE [cw |-> d.cw, ch |-> d.ch, iw |-> i.iw, ih |-> i.ih]

\* Lines 359-367: with noEnlarge, an image larger than the source is scaled
\* down, canvas and all, until it fits the source.
LimitEnlargeNever(opts, g, width, height) == g
LimitEnlarge(opts, g, width, height) ==
  IF opts.noEnlarge
    THEN LET scale == RMin[RDiv[RInt[width], g.iw], RDiv[RInt[height], g.ih]]
         IN  IF RLess[scale, RInt[1]]
               THEN [cw |-> RMul[g.cw, scale], ch |-> RMul[g.ch, scale],
                     iw |-> RMul[g.iw, scale], ih |-> RMul[g.ih, scale]]
               ELSE g
    ELSE g

\* Lines 371-372: (canvas - image) * 0.5 * (gravity + 1).
Offset(c, i, gravity) == RMul[RMul[RSub[c, i], Rat[1, 2]], RInt[gravity + 1]]

\* Line 386: the ICO size cap, on the rounded canvas.
ExceedsIcoInclusive(type, cw, ch) ==
  type = "image/vnd.microsoft.icon" /\ (cw >= IcoMax \/ ch >= IcoMax)
ExceedsIco(type, cw, ch) ==
  type = "image/vnd.microsoft.icon" /\ (cw > IcoMax \/ ch > IcoMax)

ErrDimensions == "Image dimensions could not be determined"
ErrIco == "Exceeds max ICO size (256x256)"

\* What validateImageFit returns, or (error # "none") the error it throws.
Geometry(error, width, height, cw, ch, iw, ih, ix, iy) ==
  [error |-> error, imageWidth |-> width, imageHeight |-> height,
   cw |-> cw, ch |-> ch, iw |-> iw, ih |-> ih, ix |-> ix, iy |-> iy]
NoFit == Geometry("unset", 0, 0, 0, 0, 0, 0, 0, 0)

\* The one element of a singleton set. A value bound through a singleton
\* set is computed once, however often it is then used.
Only(S) == CHOOSE x \in S : TRUE

\* Lines 326-367: the canvas and image sizes before rounding.
Sizes(width, height, opts) ==
  Only({ Only({ Only({ LimitEnlarge(opts, s, width, height) :
                         s \in {SnapCanvas(d, i)} }) :
                  i \in {PlaceImage(d, width, height)} }) :
           d \in {FillDims(opts, width, height)} })

\* Lines 371-388: the offsets, the rounding and the ICO cap.
Rounded(width, height, opts, g) ==
  LET cw == MathRound[g.cw]
      ch == MathRound[g.ch]
  IN  IF ExceedsIco(opts.type, cw, ch)
        THEN Geometry(ErrIco, 0, 0, 0, 0, 0, 0, 0, 0)
        ELSE Geometry("none", width, height, cw, ch,
                      MathRound[g.iw], MathRound[g.ih],
                      MathRound[Offset(g.cw, g.iw, opts.xGravity)],
                      MathRound[Offset(g.ch, g.ih, opts.yGravity)])

\* validateImageFit(img, opts) for a drawable of size width x height (0: the
\* size getImageDimensions cannot tell).
validateImageFit(width, height, opts) ==
  IF width = 0 \/ height = 0
    THEN Geometry(ErrDimensions, 0, 0, 0, 0, 0, 0, 0, 0)
    ELSE Only({ Rounded(width, height, opts, g) :
                  g \in {Sizes(width, height, opts)} })

\* ----------------------------------------------------------------- state

VARIABLES
  worker,             \* _worker: "null" or the Worker created
  workerError,        \* _workerError: "null" or the bootstrap error
  messageId,          \* _messageId
  hasOffscreenCanvas, \* typeof OffscreenCanvas !== 'undefined'
  spawnCount,         \* createWebWorker calls so far
  workerState,        \* the worker thread: "none", "running" or "dead"
  msgListeners,       \* 'message' listeners registered on the Worker
  errListeners,       \* 'error' listeners registered on the Worker
  toWorker,           \* messages posted to the worker, not yet received
  workerJobs,         \* requests the worker is encoding
  fromWorker,         \* events from the worker, not yet dispatched
  pc,                 \* where each resizeImageToBlob call stands
  input,              \* each call's arguments (img, opts)
  opts,               \* each call's canonical options
  fit,                \* each call's geometry
  objects,            \* each call's drawable and its transferable snapshot
  reqId,              \* each call's correlation id
  canvas,             \* the canvas each call drew on the main thread
  outcome,            \* what each call returned or threw
  trace,              \* the stages each call went through, in order
  fitIn,              \* the geometry resolver alone: its arguments,
  fitOpts,            \*   the canonical options,
  fitOut              \*   and its result

workerVars == <<worker, workerError, messageId, hasOffscreenCanvas, spawnCount,
                workerState, msgListeners, errListeners, toWorker, workerJobs,
                fromWorker>>
callVars == <<pc, input, opts, fit, objects, reqId, canvas, outcome, trace>>
fitVars == <<fitIn, fitOpts, fitOut>>
vars == <<workerVars, callVars, fitVars>>

Calls == 1..NumCalls

\* ------------------------------------------------------------ the inputs

IcoType == "image/vnd.microsoft.icon"

\* One optional field of an options object: absent, or one of vals.
Field(f, vals) == {NoOpts} \cup {f :> v : v \in vals}

TargetDims == {-1} \cup (1..MaxTarget) \cup (IcoMax..(IcoMax + MaxOver))
Fits == {"stretch", "cover", "outside", "contain", "INSIDE", "fill"}
Gravities == { <<"NORTH">>, <<"bottom">>, <<"east">>, <<"Right">>,
               <<"north", "east">>, <<"top", "left">>,
               <<"south", "east">>, <<"south", "west">> }

\* The options the geometry resolver is checked on.
FitOptions ==
  { w @@ h @@ f @@ n @@ t @@ g :
      w \in Field("width", TargetDims), h \in Field("height", TargetDims),
      f \in Field("fit", Fits), n \in Field("noEnlarge", {TRUE}),
      t \in Field("type", {"image/jpeg", "image/png", IcoType}),
      g \in Field("gravity", Gravities) }

\* An image argument: what it is, and the size of the drawable it resolves to.
Source(kind, width, height) == [kind |-> kind, width |-> width, height |-> height]
NoSource == Source("unset", 0, 0)

\* The calls the pipeline is checked on: every kind of source with default
\* options, and a loaded image element with each of PipelineOptions.
PipelineOptions ==
  { NoOpts,
    [width |-> 1, height |-> 1, fit |-> "contain", background |-> "#fff",
     smoothen |-> TRUE],
    [width |-> 1],
    [width |-> IcoMax + 1, height |-> IcoMax + 1, type |-> IcoType] }
PipelineInputs ==
  { [img |-> Source(k, 2, 1), opts |-> NoOpts] :
      k \in {"null", "emptyBlob", "badBlob", "blob", "other"} }
  \cup { [img |-> Source("element", 0, 0), opts |-> NoOpts] }
  \cup { [img |-> Source("element", 3, 1), opts |-> o] : o \in PipelineOptions }

\* ------------------------------------------------------ source resolution

ErrRequired == "Image is required"
ErrEmptyBlob == "Blob is empty"
ErrDecode == "The source image could not be decoded"
ErrNotDrawable == "Cannot make drawable"

\* validateImageAndMakeDrawable(img): "none", or the error it fails with.
validateImageAndMakeDrawable(img) ==
  CASE img.kind = "null" -> ErrRequired
    [] img.kind = "element" -> "none"
    [] img.kind = "emptyBlob" -> ErrEmptyBlob
    [] img.kind = "blob" -> "none"
    [] img.kind = "badBlob" -> ErrDecode
    [] OTHER -> ErrNotDrawable

\* ------------------------------------------------------------- rendering

NoCanvas == [drawn |-> FALSE, cw |-> 0, ch |-> 0, alpha |-> FALSE,
             blurred |-> FALSE, fill |-> Undefined,
             ix |-> 0, iy |-> 0, iw |-> 0, ih |-> 0]

\* getBlurredImage: steps = (min(srcW / iw, srcH / ih) - 1) * 0.375 > 0.
Blurs(f) == f.imageWidth > f.iw /\ f.imageHeight > f.ih

\* renderToCanvas(img, fit, opts): the canvas after the optional fill and the
\* draw (ctx.filter is taken to exist).
renderToCanvas(f, o) ==
  [drawn |-> TRUE, cw |-> f.cw, ch |-> f.ch, alpha |-> o.alpha,
   blurred |-> o.smoothen /\ Blurs(f),
   fill |-> IF Truthy(OptBackground(o)) THEN OptBackground(o) ELSE Undefined,
   ix |-> f.ix, iy |-> f.iy, iw |-> f.iw, ih |-> f.ih]

ErrBlob == "Could not create Blob"
ErrDraw == "InvalidStateError"
ErrArgs == "ReferenceError: args is not defined"
ErrWorker == "The worker could not render"
ErrSpawn == "The Worker could not be created"
ErrSnapshot == "createImageBitmap failed"
ErrPost == "DataCloneError"
ErrWorkerEvent == "error event"

Pending == [kind |-> "pending", error |-> "", canvas |-> NoCanvas,
            type |-> "", quality |-> 0]
Failure(e) == [kind |-> "error", error |-> e, canvas |-> NoCanvas,
               type |-> "", quality |-> 0]
Blob(cv, o) == [kind |-> "blob", error |-> "", canvas |-> cv,
                type |-> o.type, quality |-> o.quality]

\* getBlobFromCanvas(canvasEl, type, quality): toBlob gives null for a canvas
\* without pixels.
getBlobFromCanvas(cv, o) ==
  IF cv.cw = 0 \/ cv.ch = 0 THEN Failure(ErrBlob) ELSE Blob(cv, o)

\* The worker's message handler on a render request: the error it posts, or
\* the canvas it goes on to encode.
workerRender(f, o) ==
  IF Truthy(OptBackground(o))
    THEN [error |-> ErrArgs, canvas |-> NoCanvas]
    ELSE [error |-> "none",
          canvas |-> [drawn |-> TRUE, cw |-> f.cw, ch |-> f.ch, alpha |-> o.alpha,
                      blurred |-> o.smoothen /\ Blurs(f), fill |-> Undefined,
                      ix |-> f.ix, iy |-> f.iy, iw |-> f.iw, ih |-> f.ih]]

\* ---------------------------------------------------------- the messages

NumIdOfZero(n) == [type |-> "number", num |-> 0, str |-> ""]
NumId(n) == [type |-> "number", num |-> n, str |-> ""]
StrId(str) == [type |-> "string", num |-> 0, str |-> str]
TestId == StrId("_test")
NoId == [type |-> "undefined", num |-> 0, str |-> ""]

Request(id, isTest, c, f, o) ==
  [id |-> id, isTest |-> isTest, call |-> c, fit |-> f, opts |-> o]
Event(kind, id, error, result) ==
  [kind |-> kind, id |-> id, error |-> error, result |-> result]
Listener(kind, id, c) == [kind |-> kind, id |-> id, call |-> c]

\* ----------------------------------------------------------------- Init

NoObjects == [drawable |-> "none", snapshot |-> "none"]

InitWorker ==
  /\ worker = "null"
  /\ workerError = "null"
  /\ messageId = 0
  /\ hasOffscreenCanvas \in BOOLEAN
  /\ spawnCount = 0
  /\ workerState = "none"
  /\ msgListeners = {}
  /\ errListeners = {}
  /\ toWorker = <<>>
  /\ workerJobs = {}
  /\ fromWorker = <<>>

InitCalls ==
  /\ pc = [c \in Calls |-> "idle"]
  /\ input = [c \in Calls |-> [img |-> NoSource, opts |-> NoOpts]]
  /\ opts = [c \in Calls |-> validateOptions(NoOpts)]
  /\ fit = [c \in Calls |-> NoFit]
  /\ objects = [c \in Calls |-> NoObjects]
  /\ reqId = [c \in Calls |-> NoId]
  /\ canvas = [c \in Calls |-> NoCanvas]
  /\ outcome = [c \in Calls |-> Pending]
  /\ trace = [c \in Calls |-> <<>>]

InitFit ==
  /\ fitIn = [img |-> NoSource, opts |-> NoOpts]
  /\ fitOpts = validateOptions(NoOpts)
  /\ fitOut = NoFit

Init == InitWorker /\ InitCalls /\ InitFit

\* -------------------------------------------------- the steps of one call

\* What a step makes of one call: its next position, canvas, outcome,
\* objects and trace.
Effect(p, cv, out, objs, tr) ==
  [pc |-> p, canvas |-> cv, outcome |-> out, objects |-> objs, trace |-> tr]

Apply(c, e) ==
  /\ pc' = [pc EXCEPT ![c] = e.pc]
  /\ canvas' = [canvas EXCEPT ![c] = e.canvas]
  /\ outcome' = [outcome EXCEPT ![c] = e.outcome]
  /\ objects' = [objects EXCEPT ![c] = e.objects]
  /\ trace' = [trace EXCEPT ![c] = e.trace]

\* Lines 684-685: renderToCanvas draws the call's drawable (drawImage throws
\* on a detached or closed one), then getBlobFromCanvas starts the encoder.
RunDirect(objs, f, o, tr) ==
  IF objs.drawable = "usable"
    THEN Effect("encoding", renderToCanvas(f, o), Pending, objs, tr \o <<"direct">>)
    ELSE Effect("done", NoCanvas, Failure(ErrDraw), objs, tr \o <<"direct">>)

\* Lines 675-685: the catch around the worker strategy ignores its error and
\* goes on to the main-thread strategy.
FallbackRethrows(err, objs, f, o, tr) ==
  Effect("done", NoCanvas, Failure(err), objs, tr \o <<"workerFailed">>)
Fallback(err, objs, f, o, tr) ==
  RunDirect(objs, f, o, tr \o <<"workerFailed">>)

\* Lines 667-669: the first statement that throws ends the call.
StageIgnoringGeometry(srcErr, fitErr) ==
  IF srcErr # "none" THEN "source" ELSE "render"
Stage(srcErr, fitErr) ==
  IF srcErr # "none" THEN "source"
  ELSE IF fitErr # "none" THEN "geometry"
  ELSE "render"

\* Line 186: the image posted to the worker, transferred and closed is a
\* fresh ImageBitmap of the drawable, not the drawable.
TransferredImageIsDrawable == "drawable"
TransferredImage == "snapshot"

\* Line 674: the worker strategy is tried when OffscreenCanvas exists and the
\* bootstrap has not failed.
UsesWorker == hasOffscreenCanvas /\ workerError = "null"

\* The stage a call in "resolving" reaches, and its geometry.
FitOf(c) == validateImageFit(input[c].img.width, input[c].img.height, opts[c])
StageOf(c) == Stage(validateImageAndMakeDrawable(input[c].img), FitOf(c).error)

\* resizeImageToBlob(img, opts) is called: validateOptions, then the await of
\* validateImageAndMakeDrawable.
Start(c, inp) ==
  /\ pc[c] = "idle"
  /\ \A b \in Calls : b < c => pc[b] # "idle"
  /\ pc' = [pc EXCEPT ![c] = "resolving"]
  /\ input' = [input EXCEPT ![c] = inp]
  /\ opts' = [opts EXCEPT ![c] = validateOptions(inp.opts)]
  /\ trace' = [trace EXCEPT ![c] = <<"options">>]
  /\ UNCHANGED <<workerVars, fitVars, fit, objects, reqId, canvas, outcome>>

\* validateImageAndMakeDrawable rejects: the call throws its error.
SourceRejected(c) ==
  /\ pc[c] = "resolving"
  /\ StageOf(c) = "source"
  /\ Apply(c, Effect("done", NoCanvas,
                     Failure(validateImageAndMakeDrawable(input[c].img)),
                     objects[c], trace[c] \o <<"source">>))
  /\ UNCHANGED <<workerVars, fitVars, input, opts, fit, reqId>>

\* The drawable is there and validateImageFit throws.
FitRejected(c) ==
  /\ pc[c] = "resolving"
  /\ StageOf(c) = "geometry"
  /\ fit' = [fit EXCEPT ![c] = FitOf(c)]
  /\ Apply(c, Effect("done", NoCanvas, Failure(FitOf(c).error),
                     [objects[c] EXCEPT !.drawable = "usable"],
                     trace[c] \o <<"source", "geometry">>))
  /\ UNCHANGED <<workerVars, fitVars, input, opts, reqId>>

\* Geometry resolved, no worker strategy: the main-thread strategy.
BeginDirect(c) ==
  /\ pc[c] = "resolving"
  /\ StageOf(c) = "render"
  /\ ~UsesWorker
  /\ fit' = [fit EXCEPT ![c] = FitOf(c)]
  /\ Apply(c, RunDirect([objects[c] EXCEPT !.drawable = "usable"], FitOf(c),
                        opts[c], trace[c] \o <<"source", "geometry">>))
  /\ UNCHANGED <<workerVars, fitVars, input, opts, reqId>>

\* Geometry resolved, loadWebWorker returns the cached _worker (lines
\* 116-118), and createImageBitmap(img) is called (line 186).
BeginWorkerCached(c) ==
  /\ pc[c] = "resolving"
  /\ StageOf(c) = "render"
  /\ UsesWorker
  /\ worker # "null"
  /\ fit' = [fit EXCEPT ![c] = FitOf(c)]
  /\ Apply(c, Effect("snapshotting", NoCanvas, Pending,
                     [objects[c] EXCEPT !.drawable = "usable"],
                     trace[c] \o <<"source", "geometry", "load">>))
  /\ UNCHANGED <<workerVars, fitVars, input, opts, reqId>>

\* Geometry resolved, loadWebWorker creates the Worker, registers the probe's
\* listeners and posts the probe (lines 125-153).
BeginWorkerSpawn(c) ==
  /\ pc[c] = "resolving"
  /\ StageOf(c) = "render"
  /\ UsesWorker
  /\ worker = "null"
  /\ worker' = "worker"
  /\ workerState' = "running"
  /\ spawnCount' = spawnCount + 1
  /\ msgListeners' = msgListeners \cup {Listener("probe", TestId, c)}
  /\ errListeners' = errListeners \cup {Listener("probe", TestId, c)}
  /\ toWorker' = Append(toWorker, Request(TestId, TRUE, c, NoFit, NoOpts))
  /\ fit' = [fit EXCEPT ![c] = FitOf(c)]
  /\ Apply(c, Effect("probing", NoCanvas, Pending,
                     [objects[c] EXCEPT !.drawable = "usable"],
                     trace[c] \o <<"source", "geometry", "load", "spawn", "probe">>))
  /\ UNCHANGED <<workerError, messageId, hasOffscreenCanvas, workerJobs,
                 fromWorker, fitVars, input, opts, reqId>>

\* Geometry resolved, and createWebWorker throws (line 98): the bootstrap
\* promise is rejected, _worker stays null.
SpawnThrows(c) ==
  /\ pc[c] = "resolving"
  /\ StageOf(c) = "render"
  /\ UsesWorker
  /\ worker = "null"
  /\ spawnCount' = spawnCount + 1
  /\ fit' = [fit EXCEPT ![c] = FitOf(c)]
  /\ Apply(c, Effect("spawnFailed", NoCanvas, Pending,
                     [objects[c] EXCEPT !.drawable = "usable"],
                     trace[c] \o <<"source", "geometry", "load", "spawn">>))
  /\ UNCHANGED <<worker, workerError, messageId, hasOffscreenCanvas, workerState,
                 msgListeners, errListeners, toWorker, workerJobs, fromWorker,
                 fitVars, input, opts, reqId>>

\* The rejected bootstrap is caught (lines 159-164): _workerError is set, the
\* error rethrown, and the call falls back.
BootstrapFailed(c) ==
  /\ pc[c] = "spawnFailed"
  /\ workerError' = ErrSpawn
  /\ Apply(c, Fallback(ErrSpawn, objects[c], fit[c], opts[c], trace[c]))
  /\ UNCHANGED <<worker, messageId, hasOffscreenCanvas, spawnCount, workerState,
                 msgListeners, errListeners, toWorker, workerJobs, fromWorker,
                 fitVars, input, opts, fit, reqId>>

\* createImageBitmap(img) rejects (line 186): the call falls back.
SnapshotFailed(c) ==
  /\ pc[c] = "snapshotting"
  /\ Apply(c, Fallback(ErrSnapshot, objects[c], fit[c], opts[c],
                       trace[c] \o <<"snapshot">>))
  /\ UNCHANGED <<workerVars, fitVars, input, opts, fit, reqId>>

\* The snapshot is there: the call takes its id, registers its listener and
\* posts the request, transferring the image (lines 192-211).
PostRequest(c) ==
  /\ pc[c] = "snapshotting"
  /\ reqId' = [reqId EXCEPT ![c] = NumId(messageId)]
  /\ messageId' = messageId + 1
  /\ msgListeners' = msgListeners \cup {Listener("request", NumId(messageId), c)}
  /\ toWorker' = Append(toWorker,
                        Request(NumId(messageId), FALSE, c, fit[c], opts[c]))
  /\ Apply(c, Effect("awaiting", NoCanvas, Pending,
                     [[objects[c] EXCEPT !.snapshot = "live"]
                        EXCEPT ![TransferredImage] = "detached"],
                     trace[c] \o <<"snapshot", "id", "post">>))
  /\ UNCHANGED <<worker, workerError, hasOffscreenCanvas, spawnCount, workerState,
                 errListeners, workerJobs, fromWorker, fitVars, input, opts, fit>>

\* The snapshot is there and postMessage throws (line 211): nothing is sent,
\* the finally closes the image (line 217), and the call falls back.
PostThrows(c) ==
  /\ pc[c] = "snapshotting"
  /\ reqId' = [reqId EXCEPT ![c] = NumId(messageId)]
  /\ messageId' = messageId + 1
  /\ msgListeners' = msgListeners \cup {Listener("request", NumId(messageId), c)}
  /\ Apply(c, Fallback(ErrPost,
                       [[objects[c] EXCEPT !.snapshot = "live"]
                          EXCEPT ![TransferredImage] = "closed"],
                       fit[c], opts[c],
                       trace[c] \o <<"snapshot", "id", "postThrew", "close">>))
  /\ UNCHANGED <<worker, workerError, hasOffscreenCanvas, spawnCount, workerState,
                 errListeners, toWorker, workerJobs, fromWorker, fitVars, input,
                 opts, fit>>

\* The toBlob callback of getBlobFromCanvas (lines 513-519).
EncodeDone(c) ==
  /\ pc[c] = "encoding"
  /\ Apply(c, Effect("done", canvas[c], getBlobFromCanvas(canvas[c], opts[c]),
                     objects[c], trace[c] \o <<"encode">>))
  /\ UNCHANGED <<workerVars, fitVars, input, opts, fit, reqId>>

\* ------------------------------------------------------------ the worker

\* The worker's handler on the probe (lines 30-33): it posts the id back.
WorkerReceiveTest ==
  /\ workerState = "running"
  /\ toWorker # <<>>
  /\ Head(toWorker).isTest
  /\ toWorker' = Tail(toWorker)
  /\ fromWorker' = Append(fromWorker,
                          Event("message", Head(toWorker).id, "", Pending))
  /\ UNCHANGED <<worker, workerError, messageId, hasOffscreenCanvas, spawnCount,
                 workerState, msgListeners, errListeners, workerJobs,
                 callVars, fitVars>>

\* The worker's handler on a render request (lines 35-84): an exception is
\* posted back as an error, otherwise the canvas is drawn and convertToBlob
\* started.
WorkerReceiveRequest ==
  /\ workerState = "running"
  /\ toWorker # <<>>
  /\ ~Head(toWorker).isTest
  /\ toWorker' = Tail(toWorker)
  /\ LET m == Head(toWorker)
         r == workerRender(m.fit, m.opts)
     IN  IF r.error # "none"
           THEN /\ fromWorker' = Append(fromWorker,
                                        Event("message", m.id, r.error, Pending))
                /\ UNCHANGED workerJobs
           ELSE /\ workerJobs' = workerJobs \cup {[id |-> m.id, canvas |-> r.canvas,
                                                   opts |-> m.opts]}
                /\ UNCHANGED fromWorker
  /\ UNCHANGED <<worker, workerError, messageId, hasOffscreenCanvas, spawnCount,
                 workerState, msgListeners, errListeners, callVars, fitVars>>

\* convertToBlob settles (lines 74-78): the blob is posted as the result, or
\* the rejection as the error; a canvas without pixels is always rejected.
WorkerFinish(job, encoded) ==
  /\ workerState = "running"
  /\ job \in workerJobs
  /\ workerJobs' = workerJobs \ {job}
  /\ LET blob == getBlobFromCanvas(job.canvas, job.opts)
     IN  fromWorker' = Append(fromWorker,
           IF encoded /\ blob.kind = "blob"
             THEN Event("message", job.id, "", blob)
             ELSE Event("message", job.id, ErrWorker, Pending))
  /\ UNCHANGED <<worker, workerError, messageId, hasOffscreenCanvas, spawnCount,
                 workerState, msgListeners, errListeners, toWorker,
                 callVars, fitVars>>

\* The worker stops for good: its script fails or it is killed, with an
\* 'error' event on the Worker object or with none.
WorkerDies(withEvent) ==
  /\ workerState = "running"
  /\ workerState' = "dead"
  /\ fromWorker' = IF withEvent
                     THEN Append(fromWorker,
                                 Event("error", NoId, ErrWorkerEvent, Pending))
                     ELSE fromWorker
  /\ UNCHANGED <<worker, workerError, messageId, hasOffscreenCanvas, spawnCount,
                 msgListeners, errListeners, toWorker, workerJobs,
                 callVars, fitVars>>

\* ------------------------------------------- events on the Worker object

\* The listeners a 'message' event with this id runs to effect: handleMessage
\* compares event.data.id to its own id (lines 142, 200).
HearsEveryMessage(l, e) == TRUE
Hears(l, e) == l.id = e.id

\* A 'message' event is dispatched to every 'message' listener. The probe's
\* listener, on its id, removes the probe's listeners and resolves the
\* bootstrap (lines 131-145): the owner goes on to createImageBitmap. A
\* request's listener, on its id, removes itself and settles the round trip
\* (lines 199-207): the finally closes the image (line 217), and the call
\* returns the result or falls back on the error.
DeliverMessage ==
  /\ fromWorker # <<>>
  /\ Head(fromWorker).kind = "message"
  /\ fromWorker' = Tail(fromWorker)
  /\ LET e == Head(fromWorker)
         heard == {l \in msgListeners : Hears(l, e)}
         probed == {l.call : l \in {h \in heard : h.kind = "probe"}}
         asked == {l.call : l \in {h \in heard : h.kind = "request"}}
         answered == {c \in asked : pc[c] = "awaiting"}
         closed(c) == [objects[c] EXCEPT ![TransferredImage] = "closed"]
         eff(c) ==
           IF c \in answered
             THEN IF e.error # ""
                    THEN Fallback(e.error, closed(c), fit[c], opts[c],
                                  trace[c] \o <<"response", "close">>)
                    ELSE Effect("done", NoCanvas, e.result, closed(c),
                                trace[c] \o <<"response", "close">>)
           ELSE IF c \in probed /\ pc[c] = "probing"
             THEN Effect("snapshotting", NoCanvas, Pending, objects[c], trace[c])
           ELSE Effect(pc[c], canvas[c], outcome[c], objects[c], trace[c])
     IN  /\ msgListeners' = msgListeners \ heard
         /\ errListeners' = {l \in errListeners : l.call \notin probed}
         /\ pc' = [c \in Calls |-> eff(c).pc]
         /\ canvas' = [c \in Calls |-> eff(c).canvas]
         /\ outcome' = [c \in Calls |-> eff(c).outcome]
         /\ objects' = [c \in Calls |-> eff(c).objects]
         /\ trace' = [c \in Calls |-> eff(c).trace]
  /\ UNCHANGED <<worker, workerError, messageId, hasOffscreenCanvas, spawnCount,
                 workerState, toWorker, workerJobs, fitVars, input, opts, fit, reqId>>

\* Lines 159-164: _workerError after an 'error' event. Only the catch of
\* loadWebWorker sets it, so only when a probe's 'error' listener heard the
\* event.
WorkerErrorAfterAnyEvent(probed, error) == error
WorkerErrorAfter(probed, error) == IF probed # {} THEN error ELSE workerError

\* An 'error' event is dispatched to every 'error' listener: the probe's
\* removes the probe's listeners and rejects the bootstrap (lines 131-149),
\* the rejection is caught (lines 159-164), _workerError set, and the owner
\* falls back. Requests register no 'error' listener.
DeliverError ==
  /\ fromWorker # <<>>
  /\ Head(fromWorker).kind = "error"
  /\ fromWorker' = Tail(fromWorker)
  /\ LET e == Head(fromWorker)
         probed == {l.call : l \in errListeners}
         eff(c) ==
           IF c \in probed /\ pc[c] = "probing"
             THEN Fallback(e.error, objects[c], fit[c], opts[c], trace[c])
             ELSE Effect(pc[c], canvas[c], outcome[c], objects[c], trace[c])
     IN  /\ msgListeners' = {l \in msgListeners :
                               ~(l.kind = "probe" /\ l.call \in probed)}
         /\ errListeners' = {}
         /\ workerError' = WorkerErrorAfter(probed, e.error)
         /\ pc' = [c \in Calls |-> eff(c).pc]
         /\ canvas' = [c \in Calls |-> eff(c).canvas]
         /\ outcome' = [c \in Calls |-> eff(c).outcome]
         /\ objects' = [c \in Calls |-> eff(c).objects]
         /\ trace' = [c \in Calls |-> eff(c).trace]
  /\ UNCHANGED <<worker, messageId, hasOffscreenCanvas, spawnCount, workerState,
                 toWorker, workerJobs, fitVars, input, opts, fit, reqId>>

\* ------------------------------------------------- the geometry alone

FitSources == {Source("element", w, h) : w \in 0..MaxSrc, h \in 0..MaxSrc}

\* validateOptions(opts), then validateImageFit(img, opts), as lines 667-669
\* run them on one call's arguments.
FitCall(img, o) ==
  /\ fitIn' = [img |-> img, opts |-> o]
  /\ fitOpts' = validateOptions(o)
  /\ fitOut' = validateImageFit(img.width, img.height, validateOptions(o))
  /\ UNCHANGED <<workerVars, callVars>>

\* ------------------------------------------------------- specifications

CallStep(c) ==
  \/ \E inp \in PipelineInputs : Start(c, inp)
  \/ SourceRejected(c)
  \/ FitRejected(c)
  \/ BeginDirect(c)
  \/ BeginWorkerCached(c)
  \/ BeginWorkerSpawn(c)
  \/ SpawnThrows(c)
  \/ BootstrapFailed(c)
  \/ SnapshotFailed(c)
  \/ PostRequest(c)
  \/ PostThrows(c)
  \/ EncodeDone(c)

\* The steps the event loop is bound to run: continuations of settled
\* promises, and queued events.
Continue(c) ==
  \/ SourceRejected(c) \/ FitRejected(c) \/ BeginDirect(c)
  \/ BeginWorkerCached(c) \/ BeginWorkerSpawn(c) \/ SpawnThrows(c)
  \/ BootstrapFailed(c)
  \/ SnapshotFailed(c) \/ PostRequest(c) \/ PostThrows(c)
  \/ EncodeDone(c)

WorkerStep ==
  \/ WorkerReceiveTest
  \/ WorkerReceiveRequest
  \/ \E job \in workerJobs, encoded \in BOOLEAN : WorkerFinish(job, encoded)

Next ==
  \/ \E c \in Calls : CallStep(c)
  \/ WorkerStep
  \/ \E withEvent \in BOOLEAN : WorkerDies(withEvent)
  \/ DeliverMessage
  \/ DeliverError

Spec == Init /\ [][Next]_vars

\* The steps that are bound to happen once they can: the event loop runs the
\* continuation of every settled promise and dispatches every queued event,
\* and a running worker handles what it was sent.
Progress ==
  \/ \E c \in Calls : Continue(c)
  \/ DeliverMessage
  \/ DeliverError
  \/ WorkerStep

\* Nothing obliges a worker to stay alive, nor a caller to call. Every run
\* of the bounded calls comes to rest, so this weak fairness leaves no step
\* of Progress enabled for ever.
FairSpec == Spec /\ WF_vars(Progress)

FitNext ==
  /\ fitOut.error = "unset"
  /\ \E img \in FitSources, o \in FitOptions : FitCall(img, o)

FitInit == Init /\ hasOffscreenCanvas = TRUE

FitSpec == FitInit /\ [][FitNext]_vars

\* ------------------------------------------------------------ the claims

Range(seq) == {seq[i] : i \in 1..Len(seq)}
Started(c) == pc[c] # "idle"
PastResolving(c) == pc[c] \notin {"idle", "resolving"}
SourceErrorOf(c) == validateImageAndMakeDrawable(input[c].img)
RenderEvents == {"load", "spawn", "probe", "snapshot", "id", "post", "postThrew",
                 "close", "response", "workerFailed", "direct", "encode"}

\* What the main-thread strategy alone makes of a call's drawable, geometry
\* and options.
DirectOutcome(c) ==
  getBlobFromCanvas(
    renderToCanvas(validateImageFit(input[c].img.width, input[c].img.height,
                                    validateOptions(input[c].opts)),
                   validateOptions(input[c].opts)),
    validateOptions(input[c].opts))

\* A call whose source resolves, whose geometry is valid and which the
\* main-thread strategy would serve.
Servable(c) ==
  /\ Started(c)
  /\ SourceErrorOf(c) = "none"
  /\ FitOf(c).error = "none"
  /\ DirectOutcome(c).kind = "blob"

\* C1: every call whose source resolves, whose geometry is valid and which
\* the main-thread strategy would serve eventually returns, whatever the
\* worker does.
C1_ServableCallReturns ==
  \A c \in Calls : (pc[c] = "resolving" /\ Servable(c)) ~> (pc[c] = "done")

\* C2: a call that the worker strategy failed ends with exactly the outcome
\* of the main-thread strategy on the same drawable, geometry and options,
\* and a call fails in the render stage only if the main-thread strategy
\* fails.
C2_FallbackIsDirect ==
  \A c \in Calls :
    /\ (pc[c] = "done" /\ "workerFailed" \in Range(trace[c]))
         => outcome[c] = DirectOutcome(c)
    /\ (pc[c] = "done" /\ outcome[c].kind = "error"
          /\ SourceErrorOf(c) = "none" /\ FitOf(c).error = "none")
         => (DirectOutcome(c).kind = "error" /\ outcome[c] = DirectOutcome(c))

C2_Witness ==
  \E c \in Calls :
    /\ pc[c] = "done"
    /\ "workerFailed" \in Range(trace[c])
    /\ "response" \in Range(trace[c])
    /\ outcome[c].kind = "blob"

\* C3: the stages run in the order options, source, geometry, render; a call
\* whose source fails ends with that error without computing the geometry,
\* and a call whose source or geometry fails ends with that error without
\* spawning the worker, taking an id, posting or drawing.
C3_FailFast ==
  /\ \A c \in Calls :
       /\ Len(trace[c]) >= 1 => trace[c][1] = "options"
       /\ Len(trace[c]) >= 2 => trace[c][2] = "source"
       /\ Len(trace[c]) >= 3 => trace[c][3] = "geometry"
       /\ \A i \in 4..Len(trace[c]) : trace[c][i] \in RenderEvents
       /\ (PastResolving(c) /\ SourceErrorOf(c) # "none")
            => /\ pc[c] = "done"
               /\ outcome[c] = Failure(SourceErrorOf(c))
               /\ trace[c] = <<"options", "source">>
               /\ fit[c] = NoFit
               /\ reqId[c] = NoId
               /\ canvas[c] = NoCanvas
       /\ (PastResolving(c) /\ SourceErrorOf(c) = "none" /\ FitOf(c).error # "none")
            => /\ pc[c] = "done"
               /\ outcome[c] = Failure(FitOf(c).error)
               /\ trace[c] = <<"options", "source", "geometry">>
               /\ reqId[c] = NoId
               /\ canvas[c] = NoCanvas
  /\ (\A c \in Calls :
        Started(c) => (SourceErrorOf(c) # "none" \/ FitOf(c).error # "none"))
       => /\ spawnCount = 0
          /\ worker = "null"
          /\ messageId = 0
          /\ toWorker = <<>>
          /\ msgListeners = {}

C3_Witness ==
  /\ hasOffscreenCanvas
  /\ \E c, d \in Calls :
       /\ pc[c] = "done" /\ outcome[c].error = ErrEmptyBlob
       /\ pc[d] = "done" /\ outcome[d].error = ErrIco

FitCalled == fitOut.error # "unset"
FitResolved == fitOut.error = "none"
\* Both target dimensions given and a fit that snaps the canvas to the image.
Snaps == fitOpts.width # 0 /\ fitOpts.height # 0 /\ fitOpts.fit \in {"outside", "inside"}
\* Both target dimensions given and a fit that keeps the aspect ratio.
Uniform ==
  /\ fitOpts.width # 0 /\ fitOpts.height # 0
  /\ fitOpts.fit \in {"cover", "outside", "contain", "inside"}
SourceKnown == fitIn.img.width # 0 /\ fitIn.img.height # 0

\* C4, as claimed: for ICO output every call whose requested width or
\* height exceeds 256 fails with a geometry error, and a request of exactly
\* 256x256 succeeds.
C4_IcoRequestCap ==
  (FitCalled /\ fitOpts.type = IcoType)
    => /\ (fitOpts.width > IcoMax \/ fitOpts.height > IcoMax)
            => fitOut.error \in {ErrIco, ErrDimensions}
       /\ (fitOpts.width = IcoMax /\ fitOpts.height = IcoMax /\ SourceKnown)
            => fitOut.error = "none"

\* C4, amended: for ICO output the cap bears on the resolved canvas. With
\* noEnlarge false and a fit that does not snap the canvas to the image,
\* every call whose requested width or height exceeds 256 fails with the ICO
\* geometry error; and a request of exactly 256x256 succeeds for every fit
\* but Outside.
C4_IcoCanvasCap ==
  (FitCalled /\ fitOpts.type = IcoType /\ SourceKnown)
    => /\ ((fitOpts.width > IcoMax \/ fitOpts.height > IcoMax)
             /\ ~fitOpts.noEnlarge /\ ~Snaps)
            => fitOut.error = ErrIco
       /\ (fitOpts.width = IcoMax /\ fitOpts.height = IcoMax
             /\ ~(Snaps /\ fitOpts.fit = "outside"))
            => fitOut.error = "none"

C4_Witness ==
  /\ fitOpts.type = IcoType
  /\ fitOpts.width = IcoMax + 1
  /\ fitOpts.fit = "contain"
  /\ ~fitOpts.noEnlarge
  /\ SourceKnown
  /\ fitOut.error = ErrIco

\* C5: with noEnlarge the placed image is never wider or taller than the
\* source.
C5_NoEnlarge ==
  (FitResolved /\ fitOpts.noEnlarge)
    => /\ fitOut.iw <= fitOut.imageWidth
       /\ fitOut.ih <= fitOut.imageHeight

C5_Witness ==
  /\ FitResolved
  /\ fitOpts.noEnlarge
  /\ fitOpts.width > fitIn.img.width
  /\ fitOpts.height > fitIn.img.height
  /\ fitOpts.fit = "cover"
  /\ fitOut.iw = fitIn.img.width

\* C6: the rounded offsets keep an image that fits the rounded canvas inside
\* it: 0 <= ix <= cw - iw when iw <= cw, and 0 <= iy <= ch - ih when
\* ih <= ch.
C6_OffsetsInCanvas ==
  FitResolved
    => /\ fitOut.iw <= fitOut.cw
            => (0 <= fitOut.ix /\ fitOut.ix <= fitOut.cw - fitOut.iw)
       /\ fitOut.ih <= fitOut.ch
            => (0 <= fitOut.iy /\ fitOut.iy <= fitOut.ch - fitOut.ih)

\* C7: with both dimensions given and fit cover, outside, contain or inside,
\* some one scale s has iw within 1 of s * width and ih within 1 of
\* s * height; in every other case the image is the canvas.
C7_AspectOrFill ==
  FitResolved
    => IF Uniform
         THEN /\ (fitOut.iw - 1) * fitOut.imageHeight
                   <= (fitOut.ih + 1) * fitOut.imageWidth
              /\ (fitOut.ih - 1) * fitOut.imageWidth
                   <= (fitOut.iw + 1) * fitOut.imageHeight
         ELSE fitOut.iw = fitOut.cw /\ fitOut.ih = fitOut.ch

C7_Witness ==
  /\ FitResolved
  /\ Uniform
  /\ fitOpts.fit = "cover"
  /\ fitIn.img.width # fitIn.img.height
  /\ fitOpts.width = IcoMax
  /\ fitOut.iw > fitOut.cw

HasWord(words) ==
  Has(fitIn.opts, "gravity") /\ \E w \in words : Includes(fitIn.opts.gravity, w)

\* C8: north/top makes the vertical gravity -1 and the image flush to the
\* top, south/bottom makes it +1, east/left makes the horizontal gravity -1
\* and the image flush to the left, west/right makes it +1; without a
\* vertical word the vertical gravity is 0, without a horizontal word the
\* horizontal gravity is 0.
C8_GravityAxes ==
  FitCalled
    => /\ HasWord({"north", "top"})
            => (fitOpts.yGravity = -1 /\ (FitResolved => fitOut.iy = 0))
       /\ (HasWord({"south", "bottom"}) /\ ~HasWord({"north", "top"}))
            => fitOpts.yGravity = 1
       /\ ~HasWord({"north", "top", "south", "bottom"}) => fitOpts.yGravity = 0
       /\ HasWord({"east", "left"})
            => (fitOpts.xGravity = -1 /\ (FitResolved => fitOut.ix = 0))
       /\ (HasWord({"west", "right"}) /\ ~HasWord({"east", "left"}))
            => fitOpts.xGravity = 1
       /\ ~HasWord({"east", "left", "west", "right"}) => fitOpts.xGravity = 0

\* C9: a call given a background colour ends with a surface filled with that
\* colour before the draw, in the main-thread and in the worker strategy,
\* and a call given none with an unfilled one.
C9_BackgroundFilled ==
  \A c \in Calls :
    (pc[c] = "done" /\ outcome[c].kind = "blob")
      => outcome[c].canvas.fill =
           (IF Has(input[c].opts, "background")
              THEN input[c].opts.background ELSE Undefined)

\* C10: the drawable of a call is never transferred nor closed; what the
\* worker is sent is a snapshot, detached on the main thread while the call
\* awaits, and a fallback never fails to draw the drawable.
C10_DrawableKept ==
  \A c \in Calls :
    /\ objects[c].drawable \in {"none", "usable"}
    /\ pc[c] = "awaiting" => objects[c].snapshot = "detached"
    /\ (pc[c] = "done" /\ "direct" \in Range(trace[c]))
         => outcome[c].error # ErrDraw

C10_Witness ==
  \E c \in Calls :
    /\ pc[c] = "done"
    /\ "post" \in Range(trace[c])
    /\ "workerFailed" \in Range(trace[c])
    /\ objects[c].snapshot = "closed"
    /\ objects[c].drawable = "usable"
    /\ outcome[c].kind = "blob"

\* loadWebWorker has returned the worker to call c as usable.
Handed(c) == pc[c] = "snapshotting" \/ "snapshot" \in Range(trace[c])

\* C11: the permanent-failure marker, once set, stays set, and from then on
\* no worker is spawned and every call leaving source resolution goes
\* straight to the main-thread strategy (or fails on its geometry); and a
\* worker that some caller was handed as usable is never marked failed later.
C11_ChannelForward ==
  [][ /\ workerError # "null"
           => /\ workerError' # "null"
              /\ spawnCount' = spawnCount
              /\ worker' = worker
              /\ \A c \in Calls :
                   (pc[c] = "resolving" /\ pc'[c] # "resolving")
                     => pc'[c] \in {"done", "encoding"}
      /\ ((\E c \in Calls : Handed(c)) /\ workerError = "null")
           => workerError' = "null" ]_vars

\* C12: in every interleaving of the calls the worker is spawned at most
\* once: createWebWorker is called at most once in the process lifetime.
C12_SingleSpawn == spawnCount <= 1

\* The bootstrap of call c ended in its catch: its spawn threw or its probe
\* was rejected.
BootstrapFailedFor(c) ==
  \E i \in 1..(Len(trace[c]) - 1) :
    trace[c][i] \in {"spawn", "probe"} /\ trace[c][i + 1] = "workerFailed"

\* The probe's response has been received.
ProbePassed ==
  \E c \in Calls :
    "probe" \in Range(trace[c]) /\ pc[c] # "probing" /\ ~BootstrapFailedFor(c)

\* C13: no caller is handed the worker, and no render request is posted to
\* it, before the probe's response has been received; a caller that arrives
\* while the probe is in flight waits, and posts nothing if the probe fails.
C13_ProbeBeforeUse ==
  /\ \A c \in Calls : Handed(c) => ProbePassed
  /\ \A i \in 1..Len(toWorker) : ~toWorker[i].isTest => ProbePassed

\* C14: only a failed spawn or probe sets the permanent-failure marker: a
\* snapshot failure or an error response leaves it unset, and with it unset
\* every call that reaches the render stage tries the worker first.
C14_OnlyBootstrapMarks ==
  /\ workerError # "null" => \E c \in Calls : BootstrapFailedFor(c)
  /\ \A c \in Calls :
       ("direct" \in Range(trace[c]) /\ "load" \notin Range(trace[c]))
         => (~hasOffscreenCanvas \/ \E d \in Calls : BootstrapFailedFor(d))

C14_Witness ==
  /\ workerError = "null"
  /\ \E c, d \in Calls :
       /\ pc[c] = "done"
       /\ "response" \in Range(trace[c])
       /\ "workerFailed" \in Range(trace[c])
       /\ "post" \in Range(trace[d])
       /\ reqId[d].num > reqId[c].num

\* The render requests in the queue to the worker, in posting order.
PostedIds == [i \in {j \in 1..Len(toWorker) : ~toWorker[j].isTest} |-> toWorker[i].id]

\* C15: no two calls take the same correlation id, every id taken is a
\* number below the next one to be given, the ids of the posted requests
\* increase in posting order, and none is the probe's id.
C15_IdsIncrease ==
  /\ \A c \in Calls :
       reqId[c] # NoId
         => /\ reqId[c].type = "number"
            /\ reqId[c].num < messageId
            /\ reqId[c] # TestId
  /\ \A c, d \in Calls :
       (c # d /\ reqId[c] # NoId /\ reqId[d] # NoId) => reqId[c] # reqId[d]
  /\ \A i, j \in DOMAIN PostedIds :
       i < j => PostedIds[i].num < PostedIds[j].num
  /\ \A i \in DOMAIN PostedIds : PostedIds[i] # TestId

C15_Witness ==
  /\ Len(toWorker) >= 2
  /\ \E c, d \in Calls :
       /\ d < c
       /\ "post" \in Range(trace[c]) /\ reqId[c].num = 0
       /\ "post" \in Range(trace[d]) /\ reqId[d].num = 1

\* The request with this id, or its response, is still on its way.
InFlight(id) ==
  \/ \E i \in 1..Len(toWorker) : toWorker[i].id = id
  \/ \E job \in workerJobs : job.id = id
  \/ \E i \in 1..Len(fromWorker) : fromWorker[i].id = id

Responses(c) == {i \in 1..Len(trace[c]) : trace[c][i] = "response"}

Closes(c) == {i \in 1..Len(trace[c]) : trace[c][i] = "close"}

\* A call that has left the worker strategy, or was never in it, holds no
\* unreleased snapshot, and no snapshot is closed twice.
SnapshotsClosedOnExit ==
  \A c \in Calls :
    /\ Cardinality(Closes(c)) <= 1
    /\ (pc[c] \in {"encoding", "done"} /\ objects[c].snapshot # "none")
         => (objects[c].snapshot = "closed" /\ Cardinality(Closes(c)) = 1)

\* C17: every snapshot created for transfer is released exactly once on
\* every exit of the worker strategy (a result, an error response, a
\* postMessage that throws), and also when the worker fails without
\* responding: every snapshot is eventually released.
C17_SnapshotReleased ==
  /\ []SnapshotsClosedOnExit
  /\ \A c \in Calls :
       (objects[c].snapshot \in {"live", "detached"})
         ~> (objects[c].snapshot = "closed")

RequestListeners == {l \in msgListeners : l.kind = "request"}
ProbeListeners == {l \in msgListeners \cup errListeners : l.kind = "probe"}

\* C18: the registered request listeners are as many as the calls awaiting a
\* response; the probe's listeners are registered only while a probe is in
\* flight; and once an 'error' event of a dead worker has been dispatched no
\* request listener is left.
C18_NoListenerLeak ==
  /\ Cardinality(RequestListeners) = Cardinality({c \in Calls : pc[c] = "awaiting"})
  /\ ProbeListeners # {} => \E c \in Calls : pc[c] = "probing"
  /\ (workerState = "dead" /\ workerError = ErrWorkerEvent /\ fromWorker = <<>>)
       => RequestListeners = {}

\* C19: a geometry the resolver returns has integer sizes and offsets and a
\* canvas of positive area.
C19_CanvasHasArea ==
  FitResolved
    => /\ {fitOut.cw, fitOut.ch, fitOut.iw, fitOut.ih, fitOut.ix, fitOut.iy} \subseteq Int
       /\ fitOut.cw * fitOut.ch > 0

\* C20: in the canonical options alpha is false exactly when the canonical
\* type is image/jpeg, also when the caller gives no type and the type takes
\* its default.
C20_AlphaFromType ==
  FitCalled => (fitOpts.alpha <=> fitOpts.type # "image/jpeg")

\* C21: with both target dimensions given, 'outside' and 'inside' give a
\* canvas equal to the placed image with offsets (0, 0), whatever the
\* gravity and noEnlarge; 'contain' and 'cover' without noEnlarge keep the
\* canvas at the requested width and height.
C21_SnapOrKeep ==
  (FitResolved /\ fitOpts.width # 0 /\ fitOpts.height # 0)
    => /\ fitOpts.fit \in {"outside", "inside"}
            => /\ fitOut.cw = fitOut.iw
               /\ fitOut.ch = fitOut.ih
               /\ fitOut.ix = 0
               /\ fitOut.iy = 0
       /\ (fitOpts.fit \in {"contain", "cover"} /\ ~fitOpts.noEnlarge)
            => /\ fitOut.cw = fitOpts.width
               /\ fitOut.ch = fitOpts.height

C21_Witness ==
  /\ FitResolved
  /\ fitOpts.fit = "inside"
  /\ fitOpts.noEnlarge
  /\ fitOpts.xGravity = 1
  /\ fitOpts.width > fitOut.cw
  /\ fitOpts.height > fitOut.ch
  /\ fitOut.cw # fitOut.ch

====
